---------------------------- MODULE Spec2Model ----------------------------
(***************************************************************************)
(* A model of the two components of cmssw-xrootd-utils:                    *)
(*   - list_cmssw_releases.py  (the Collector: is_version_greater and      *)
(*     find_xrootd_versions)                                               *)
(*   - find_unsupported_releases.py (the Analyzer: get_sort_key and        *)
(*     analyze_releases)                                                   *)
(* Python strings are sequences of one-character strings; str.split,       *)
(* str.isdigit, int(), re.sub, re.match and str.lower are modelled by what *)
(* they do on those sequences.                                             *)
(***************************************************************************)
EXTENDS Integers, Sequences, FiniteSets, TLC

VARIABLES
    pc,            \* position of the running function
    release_name,  \* get_sort_key: its argument
    sort_key,      \* get_sort_key: its return value
    version_str,   \* is_version_greater: first argument
    target_str,    \* is_version_greater: second argument
    is_greater,    \* is_version_greater: its return value (True, False or None)
    json_file,     \* analyze_releases: the content found at the path json_file
    json_data,     \* analyze_releases: the value json.load returned
    analysis,      \* analyze_releases: the returned (analysis_results, unsupported) or a fault
    tree,          \* find_xrootd_versions: the scanned (arch, release) pairs and their xrootd.xml
    idx,           \* find_xrootd_versions: number of pairs the nested loops have visited
    release_data   \* find_xrootd_versions: the defaultdict being filled

vars == <<pc, release_name, sort_key, version_str, target_str, is_greater,
          json_file, json_data, analysis, tree, idx, release_data>>

None == "None"

True == "True"

False == "False"

-----------------------------------------------------------------------------
(* Characters and Python's string primitives                               *)

DigitChars == <<"0", "1", "2", "3", "4", "5", "6", "7", "8", "9">>

LowerChars == <<"a", "b", "c", "d", "e", "f", "g", "h", "i", "j", "k", "l", "m",
                "n", "o", "p", "q", "r", "s", "t", "u", "v", "w", "x", "y", "z">>

UpperChars == <<"A", "B", "C", "D", "E", "F", "G", "H", "I", "J", "K", "L", "M",
                "N", "O", "P", "Q", "R", "S", "T", "U", "V", "W", "X", "Y", "Z">>

Range(s) == {s[i] : i \in DOMAIN s}

IndexOf(s, c) == CHOOSE i \in DOMAIN s : s[i] = c

IsDigitChar(c) == c \in Range(DigitChars)

IsAlphaChar(c) == c \in Range(LowerChars) \cup Range(UpperChars)

DigitVal(c) == IndexOf(DigitChars, c) - 1

\* str.isdigit(): non-empty and every character a digit
IsDigit(s) == Len(s) > 0 /\ \A i \in DOMAIN s : IsDigitChar(s[i])

\* int(s) for a string of digits (leading zeros allowed)
RECURSIVE IntOf(_)
IntOf(s) ==
    IF Len(s) = 0 THEN 0
    ELSE 10 * IntOf(SubSeq(s, 1, Len(s) - 1)) + DigitVal(s[Len(s)])

\* str.lower() on one character
LowerChar(c) ==
    IF c \in Range(UpperChars) THEN LowerChars[IndexOf(UpperChars, c)] ELSE c

Lower(s) == [i \in DOMAIN s |-> LowerChar(s[i])]

\* str.split(sep): the pieces between the occurrences of sep (never empty list)
RECURSIVE SplitFrom(_, _, _, _)
SplitFrom(s, sep, i, cur) ==
    IF i > Len(s) THEN <<cur>>
    ELSE IF s[i] = sep THEN <<cur>> \o SplitFrom(s, sep, i + 1, <<>>)
    ELSE SplitFrom(s, sep, i + 1, Append(cur, s[i]))

Split(s, sep) == SplitFrom(s, sep, 1, <<>>)

\* Code-point rank of a character of a lower-cased alphabetic tag or a digit
CharRank(c) ==
    IF IsDigitChar(c) THEN IndexOf(DigitChars, c)
    ELSE 100 + IndexOf(LowerChars, c)

\* Python's str < str: lexicographic, a proper prefix is smaller
RECURSIVE StrLess(_, _)
StrLess(a, b) ==
    IF Len(b) = 0 THEN FALSE
    ELSE IF Len(a) = 0 THEN TRUE
    ELSE IF a[1] # b[1] THEN CharRank(a[1]) < CharRank(b[1])
    ELSE StrLess(Tail(a), Tail(b))

\* Python's tuple-of-int < tuple-of-int
RECURSIVE IntSeqLess(_, _)
IntSeqLess(a, b) ==
    IF Len(b) = 0 THEN FALSE
    ELSE IF Len(a) = 0 THEN TRUE
    ELSE IF a[1] # b[1] THEN a[1] < b[1]
    ELSE IntSeqLess(Tail(a), Tail(b))

\* n zeros: [0] * n (empty when n <= 0)
Zeros(n) == [i \in 1..n |-> 0]

-----------------------------------------------------------------------------
(* find_unsupported_releases.py: get_sort_key                              *)

PadWidth == 4

\* the default pre_parts: ('zz', 0)
DefaultPre == [name |-> <<"z", "z">>, num |-> 0]

\* length of the longest prefix of s (from position i) whose characters satisfy
\* the class: alpha when alpha = TRUE, digit otherwise
RECURSIVE RunLen(_, _, _)
RunLen(s, i, alpha) ==
    IF i > Len(s) THEN 0
    ELSE IF (alpha /\ IsAlphaChar(s[i])) \/ (~alpha /\ IsDigitChar(s[i]))
         THEN 1 + RunLen(s, i + 1, alpha)
         ELSE 0

\* re.match(r'([a-zA-Z]+)(\d+)?', part): None, or (group(1), group(2) or "")
ReMatchTag(part) ==
    LET a == RunLen(part, 1, TRUE)
        d == RunLen(part, a + 1, FALSE)
    IN IF a = 0 THEN [matched |-> FALSE, g1 |-> <<>>, g2 |-> <<>>]
       ELSE [matched |-> TRUE, g1 |-> SubSeq(part, 1, a),
             g2 |-> SubSeq(part, a + 1, a + d)]

\* the for loop over parts, with its break at the first non-numeric part
RECURSIVE SortKeyLoop(_, _, _, _)
SortKeyLoop(parts, i, num_parts, pre_parts) ==
    IF i > Len(parts) THEN [num |-> num_parts, pre |-> pre_parts]
    ELSE IF IsDigit(parts[i])
         THEN SortKeyLoop(parts, i + 1, Append(num_parts, IntOf(parts[i])), pre_parts)
         ELSE LET m == ReMatchTag(parts[i])
              IN IF m.matched
                 THEN [num |-> num_parts,
                       pre |-> [name |-> Lower(m.g1), num |-> IntOf(m.g2)]]
                 ELSE [num |-> num_parts, pre |-> pre_parts]

get_sort_key_pad3(name) ==
    LET k == SortKeyLoop(Tail(Split(name, "_")), 1, <<>>, DefaultPre)
    IN [num |-> k.num \o Zeros(3 - Len(k.num)), pre |-> k.pre]

get_sort_key(name) ==
    LET k == SortKeyLoop(Tail(Split(name, "_")), 1, <<>>, DefaultPre)
    IN [num |-> k.num \o Zeros(PadWidth - Len(k.num)), pre |-> k.pre]

\* Python's comparison of two sort keys: (tuple(num_parts), pre_parts)
KeyLess(k1, k2) ==
    IF k1.num # k2.num THEN IntSeqLess(k1.num, k2.num)
    ELSE IF k1.pre.name # k2.pre.name THEN StrLess(k1.pre.name, k2.pre.name)
    ELSE k1.pre.num < k2.pre.num

-----------------------------------------------------------------------------
(* list_cmssw_releases.py: is_version_greater                              *)

\* re.sub(r'[^\d]', '', p): p without its non-digit characters
StripNonDigits(p) == SelectSeq(p, IsDigitChar)

\* whether int(s) raises ValueError (s is made of digits, letters and dots only)
IntFails(s) == ~IsDigit(s)

\* [0] * (max_len - len(parts)) appended
PadTo(parts, n) == parts \o Zeros(n - Len(parts))

Max(a, b) == IF a >= b THEN a ELSE b

\* the for loop over zip(v_parts, t_parts); at_end is the value returned when
\* every pair is equal
RECURSIVE CompareLoop(_, _, _, _)
CompareLoop(v_parts, t_parts, i, at_end) ==
    IF i > Len(v_parts) \/ i > Len(t_parts) THEN at_end
    ELSE IF v_parts[i] > t_parts[i] THEN True
    ELSE IF v_parts[i] < t_parts[i] THEN False
    ELSE CompareLoop(v_parts, t_parts, i + 1, at_end)

is_version_greater_or_equal(version, target) ==
    LET vs == [i \in DOMAIN Split(version, ".") |-> StripNonDigits(Split(version, ".")[i])]
        ts == Split(target, ".")
    IN IF (\E i \in DOMAIN vs : IntFails(vs[i])) \/ (\E i \in DOMAIN ts : IntFails(ts[i]))
       THEN None
       ELSE LET v_parts == [i \in DOMAIN vs |-> IntOf(vs[i])]
                t_parts == [i \in DOMAIN ts |-> IntOf(ts[i])]
                max_len == Max(Len(v_parts), Len(t_parts))
            IN CompareLoop(PadTo(v_parts, max_len), PadTo(t_parts, max_len), 1, True)

is_version_greater(version, target) ==
    LET vs == [i \in DOMAIN Split(version, ".") |-> StripNonDigits(Split(version, ".")[i])]
        ts == Split(target, ".")
    IN IF (\E i \in DOMAIN vs : IntFails(vs[i])) \/ (\E i \in DOMAIN ts : IntFails(ts[i]))
       THEN None
       ELSE LET v_parts == [i \in DOMAIN vs |-> IntOf(vs[i])]
                t_parts == [i \in DOMAIN ts |-> IntOf(ts[i])]
                max_len == Max(Len(v_parts), Len(t_parts))
            IN CompareLoop(PadTo(v_parts, max_len), PadTo(t_parts, max_len), 1, False)

-----------------------------------------------------------------------------
(* find_unsupported_releases.py: analyze_releases                          *)

\* One architecture's value inside a release entry, as all(...) sees it:
\*   "ready"    a record with isTokenReady true
\*   "notready" a record with isTokenReady false
\*   "noflag"   a record without isTokenReady (v.get returns the default False)
\*   "scalar"   not a mapping at all (v.get raises AttributeError)
\* all(v.get("isTokenReady", False) for v in arch_data.values()), evaluated
\* left to right and stopping at the first falsy value: True, False or a fault
RECURSIVE AllReady_missing_flag_is_ready(_, _)
AllReady_missing_flag_is_ready(values, i) ==
    IF i > Len(values) THEN True
    ELSE IF values[i] = "scalar" THEN "fault"
    ELSE IF values[i] \in {"ready", "noflag"}
         THEN AllReady_missing_flag_is_ready(values, i + 1)
    ELSE False

RECURSIVE AllReady(_, _)
AllReady(values, i) ==
    IF i > Len(values) THEN True
    ELSE IF values[i] = "scalar" THEN "fault"
    ELSE IF values[i] = "ready" THEN AllReady(values, i + 1)
    ELSE False

\* step 1: the loop over json_data.items() building flattened_releases
RECURSIVE Flatten(_, _, _)
Flatten(items, i, flattened) ==
    IF i > Len(items) THEN [fault |-> FALSE, list |-> flattened]
    ELSE LET arch_data == items[i].value
         IN IF ~arch_data.truthy THEN Flatten(items, i + 1, flattened)
            ELSE IF ~arch_data.mapping THEN [fault |-> TRUE, list |-> flattened]
            ELSE LET r == AllReady(arch_data.values, 1)
                 IN IF r = "fault" THEN [fault |-> TRUE, list |-> flattened]
                    ELSE Flatten(items, i + 1,
                                 Append(flattened,
                                        [name |-> items[i].name,
                                         ready |-> (r = True),
                                         key |-> get_sort_key(items[i].name)]))

\* list.sort(key=...) is stable: an element goes after every element already
\* placed whose key is not greater than its own
RECURSIVE InsertPos(_, _, _)
InsertPos(sorted, e, i) ==
    IF i > Len(sorted) THEN i
    ELSE IF KeyLess(e.key, sorted[i].key) THEN i
    ELSE InsertPos(sorted, e, i + 1)

InsertAt(s, e, i) == SubSeq(s, 1, i - 1) \o <<e>> \o SubSeq(s, i, Len(s))

RECURSIVE StableSort(_, _, _)
StableSort(list, i, sorted) ==
    IF i > Len(list) THEN sorted
    ELSE StableSort(list, i + 1, InsertAt(sorted, list[i], InsertPos(sorted, list[i], 1)))

UnsupportedLow == 10

UnsupportedHigh == 13

\* line 118: 10 <= major_version <= 13
InUnsupportedRange_exclusive_low(major_version) ==
    UnsupportedLow < major_version /\ major_version <= UnsupportedHigh

InUnsupportedRange(major_version) ==
    UnsupportedLow <= major_version /\ major_version <= UnsupportedHigh

\* step 3: the loop filling major_series_map (keyed here by the major version
\* that the series name "CMSSW_<major>_X Series" is formatted from) and the
\* unsupported list
RECURSIVE Group(_, _, _, _)
Group(flattened, i, series, unsupported) ==
    IF i > Len(flattened) THEN [series |-> series, unsupported |-> unsupported]
    ELSE LET e == flattened[i]
             num_parts == e.key.num
         IN IF Len(num_parts) = 0 THEN Group(flattened, i + 1, series, unsupported)
            ELSE LET major_version == num_parts[1]
                     old == IF major_version \in DOMAIN series
                            THEN series[major_version] ELSE <<>>
                     entry == [name |-> e.name, ready |-> e.ready]
                     series2 == [m \in DOMAIN series \cup {major_version} |->
                                   IF m = major_version THEN Append(old, entry)
                                   ELSE series[m]]
                     unsupported2 ==
                         IF ~e.ready /\ InUnsupportedRange(major_version)
                         THEN Append(unsupported, e.name)
                         ELSE unsupported
                 IN Group(flattened, i + 1, series2, unsupported2)

\* step 4, inner loop: last_false_index (0-based, -1 when none), all_true, all_false
RECURSIVE ScanSeries(_, _, _)
ScanSeries(releases, i, acc) ==
    IF i > Len(releases) THEN acc
    ELSE ScanSeries(releases, i + 1,
                    [last_false_index |-> IF releases[i].ready THEN acc.last_false_index
                                          ELSE i - 1,
                     all_true |-> acc.all_true /\ releases[i].ready,
                     all_false |-> acc.all_false /\ ~releases[i].ready])

NoRelease == <<>>

\* step 4: the report string of one series
Report_off_by_one(releases) ==
    IF Len(releases) = 0 THEN [text |-> "No data found.", release |-> NoRelease]
    ELSE LET f == ScanSeries(releases, 1,
                             [last_false_index |-> -1, all_true |-> TRUE, all_false |-> TRUE])
         IN IF f.all_true
            THEN [text |-> "Token ready starting from (all releases in series are ready)",
                  release |-> releases[1].name]
            ELSE IF f.all_false
            THEN [text |-> "No releases are token ready.", release |-> NoRelease]
            ELSE IF f.last_false_index = Len(releases) - 1
            THEN [text |-> "No stable 'Token ready' status (series ends with a non-ready release).",
                  release |-> NoRelease]
            ELSE [text |-> "Token ready starting from",
                  release |-> releases[f.last_false_index + 1].name]

Report(releases) ==
    IF Len(releases) = 0 THEN [text |-> "No data found.", release |-> NoRelease]
    ELSE LET f == ScanSeries(releases, 1,
                             [last_false_index |-> -1, all_true |-> TRUE, all_false |-> TRUE])
         IN IF f.all_true
            THEN [text |-> "Token ready starting from (all releases in series are ready)",
                  release |-> releases[1].name]
            ELSE IF f.all_false
            THEN [text |-> "No releases are token ready.", release |-> NoRelease]
            ELSE IF f.last_false_index = Len(releases) - 1
            THEN [text |-> "No stable 'Token ready' status (series ends with a non-ready release).",
                  release |-> NoRelease]
            ELSE [text |-> "Token ready starting from",
                  release |-> releases[(f.last_false_index + 1) + 1].name]

NoAnalysis ==
    [outcome |-> "none", results |-> <<>>, unsupported |-> <<>>, series |-> <<>>]

EmptyResult ==
    [outcome |-> "returned", results |-> <<>>, unsupported |-> <<>>, series |-> <<>>]

\* the body of analyze_releases after the file was loaded; top is the value
\* json.load returned
Analyze(top) ==
    IF ~top.mapping
    THEN [outcome |-> "AttributeError", results |-> <<>>, unsupported |-> <<>>,
          series |-> <<>>]
    ELSE LET fl == Flatten(top.items, 1, <<>>)
         IN IF fl.fault
            THEN [outcome |-> "AttributeError", results |-> <<>>, unsupported |-> <<>>,
                  series |-> <<>>]
            ELSE LET g == Group(StableSort(fl.list, 1, <<>>), 1, <<>>, <<>>)
                 IN [outcome |-> "returned",
                     results |-> [m \in DOMAIN g.series |-> Report(g.series[m])],
                     unsupported |-> g.unsupported,
                     series |-> g.series]

-----------------------------------------------------------------------------
(* list_cmssw_releases.py: find_xrootd_versions                            *)

\* the default of token_ready_version: "5.6.0"
token_ready_version == <<"5", ".", "6", ".", "0">>

\* version_full.split("-")[0]
BeforeDash(version_full) == Split(version_full, "-")[1]

\* the body of the try block for one (arch, release) pair whose xrootd.xml
\* is a file: what the pair contributes, "skip" (nothing written) or a record.
\*   xml.state   "absent" | "unparseable" (ET.ParseError) | "parsed"
\*   xml.tag     root.tag
\*   xml.name    root.get("name")
\*   xml.has_version, xml.version   root.get("version") (None when not has_version)
Extract_none_is_ready(xml) ==
    IF xml.state # "parsed" THEN [skip |-> TRUE, xrootd_version |-> <<>>, isTokenReady |-> FALSE]
    ELSE IF ~(xml.tag = "tool" /\ xml.name = "xrootd")
    THEN [skip |-> TRUE, xrootd_version |-> <<>>, isTokenReady |-> FALSE]
    ELSE IF ~xml.has_version \/ Len(xml.version) = 0
    THEN [skip |-> TRUE, xrootd_version |-> <<>>, isTokenReady |-> FALSE]
    ELSE LET version == BeforeDash(xml.version)
             is_token_ready == is_version_greater(version, token_ready_version)
         IN [skip |-> FALSE, xrootd_version |-> version,
             isTokenReady |-> (is_token_ready # False)]

Extract(xml) ==
    IF xml.state # "parsed" THEN [skip |-> TRUE, xrootd_version |-> <<>>, isTokenReady |-> FALSE]
    ELSE IF ~(xml.tag = "tool" /\ xml.name = "xrootd")
    THEN [skip |-> TRUE, xrootd_version |-> <<>>, isTokenReady |-> FALSE]
    ELSE IF ~xml.has_version \/ Len(xml.version) = 0
    THEN [skip |-> TRUE, xrootd_version |-> <<>>, isTokenReady |-> FALSE]
    ELSE LET version == BeforeDash(xml.version)
             is_token_ready == is_version_greater(version, token_ready_version)
         IN [skip |-> FALSE, xrootd_version |-> version,
             isTokenReady |-> IF is_token_ready = None THEN FALSE
                              ELSE is_token_ready = True]

\* release_data[rel][arch] = {...} on a defaultdict(dict)
SetRecord(data, rel, arch, rec) ==
    LET old == IF rel \in DOMAIN data THEN data[rel] ELSE <<>>
        new == [a \in DOMAIN old \cup {arch} |-> IF a = arch THEN rec ELSE old[a]]
    IN [r \in DOMAIN data \cup {rel} |-> IF r = rel THEN new ELSE data[r]]

\* a read of release_data[rel] on the defaultdict, which creates the key with
\* an empty mapping (the code never does this for a skipped pair)
TouchRelease(data, rel) ==
    [r \in DOMAIN data \cup {rel} |-> IF r \in DOMAIN data THEN data[r] ELSE <<>>]

\* one pass of the inner loop body (lines 116-167) for one pair
ScanOne_touching(data, pair) ==
    LET e == Extract(pair.xml)
    IN IF e.skip THEN TouchRelease(data, pair.rel)
       ELSE SetRecord(data, pair.rel, pair.arch,
                      [xrootd_version |-> e.xrootd_version, isTokenReady |-> e.isTokenReady])

ScanOne(data, pair) ==
    LET e == Extract(pair.xml)
    IN IF e.skip THEN data
       ELSE SetRecord(data, pair.rel, pair.arch,
                      [xrootd_version |-> e.xrootd_version, isTokenReady |-> e.isTokenReady])

-----------------------------------------------------------------------------
(* Bounded inputs                                                          *)

\* sequences over S of length at most n
SeqsUpTo(S, n) == UNION {[1..k -> S] : k \in 0..n}

\* s1 + sep + s2 + sep + ... for a sequence of strings
RECURSIVE Join(_, _)
Join(strs, sep) ==
    IF Len(strs) = 0 THEN <<>>
    ELSE IF Len(strs) = 1 THEN strs[1]
    ELSE strs[1] \o <<sep>> \o Join(Tail(strs), sep)

Injective(f) == \A i, j \in DOMAIN f : i # j => f[i] # f[j]

CMSSW == <<"C", "M", "S", "S", "W">>

CMSSW_9_4_0 == <<"C", "M", "S", "S", "W", "_", "9", "_", "4", "_", "0">>

CMSSW_10_6_0 == <<"C", "M", "S", "S", "W", "_", "1", "0", "_", "6", "_", "0">>

CMSSW_13_0_0_pre1 == <<"C", "M", "S", "S", "W", "_", "1", "3", "_", "0", "_", "0", "_", "p", "r", "e", "1">>

CMSSW_13_0_0 == <<"C", "M", "S", "S", "W", "_", "1", "3", "_", "0", "_", "0">>

CMSSW_13_0 == <<"C", "M", "S", "S", "W", "_", "1", "3", "_", "0">>

CMSSW_14_0_0 == <<"C", "M", "S", "S", "W", "_", "1", "4", "_", "0", "_", "0">>

\* -- get_sort_key: release names CMSSW_<seg>_..._<seg>
MaxSegments == 5

Segments ==
    { <<"1", "0">>, <<"6">>, <<"0">>,
      <<"p", "r", "e", "1">>, <<"R", "C">>, <<"z", "z", "1">> }

SortKeyNames == {Join(<<CMSSW>> \o segs, "_") : segs \in SeqsUpTo(Segments, MaxSegments)}

\* -- is_version_greater: dotted versions
MaxComponents == 3

TargetComponents == { <<"0">>, <<"6">>, <<"1", "0">> }

VersionComponents == TargetComponents \cup { <<"0", "6", "d">> }

DottedVersions(C) ==
    {Join(cs, ".") : cs \in (SeqsUpTo(C, MaxComponents) \ {<<>>})}

\* -- analyze_releases: datasets as json.load returns them, in file order
MaxReleases == 3

ReleaseNames ==
    { CMSSW_9_4_0, CMSSW_10_6_0, CMSSW_13_0_0_pre1, CMSSW_13_0_0, CMSSW_13_0,
      CMSSW_14_0_0 }

Mapping(values) == [truthy |-> Len(values) > 0, mapping |-> TRUE, values |-> values]

\* a value that is not a mapping: a list, a number, a string, null
NonMapping(truthy) == [truthy |-> truthy, mapping |-> FALSE, values |-> <<>>]

WellFormedEntries ==
    { Mapping(<<>>), Mapping(<<"ready">>), Mapping(<<"ready", "notready">>),
      Mapping(<<"ready", "noflag">>) }

MalformedEntries ==
    { Mapping(<<"ready">>), Mapping(<<"notready", "scalar">>), Mapping(<<"ready", "scalar">>),
      NonMapping(TRUE), NonMapping(FALSE) }

Datasets(names, entries, n) ==
    { [i \in DOMAIN ns |-> [name |-> ns[i], value |-> es[i]]] :
        <<ns, es>> \in UNION { {f \in [1..k -> names] : Injective(f)} \X [1..k -> entries]
                               : k \in 0..n } }

JsonObject(items) == [kind |-> "json", top |-> [mapping |-> TRUE, items |-> items]]

JsonNonObject == [kind |-> "json", top |-> [mapping |-> FALSE, items |-> <<>>]]

MaxMalformedReleases == 2

MalformedNames == { CMSSW_10_6_0, CMSSW_13_0_0, CMSSW_13_0 }

\* -- find_xrootd_versions: the pairs the two sorted globs visit
MaxPairs == 3

AllPairs == << [arch |-> "el8_amd64_gcc11", rel |-> "CMSSW_13_0_0"],
               [arch |-> "el8_amd64_gcc11", rel |-> "CMSSW_13_0_1"],
               [arch |-> "slc7_amd64_gcc10", rel |-> "CMSSW_13_0_0"],
               [arch |-> "slc7_amd64_gcc10", rel |-> "CMSSW_13_0_1"] >>

NoXml(state) ==
    [state |-> state, tag |-> "", name |-> "", has_version |-> FALSE, version |-> <<>>]

Parsed(tag, name, has_version, version) ==
    [state |-> "parsed", tag |-> tag, name |-> name, has_version |-> has_version,
     version |-> version]

XmlVersions ==
    { <<"5", ".", "6", ".", "0">>,
      <<"5", ".", "7", "-", "a">>,
      <<"1", "0", ".", "0", "-", "a", "-", "b">>,
      <<"5", ".", "6", "d">>,
      <<"5", ".", ".", "1">>,
      <<"-", "a">> }

XmlFiles ==
    { NoXml("absent"), NoXml("unparseable"),
      Parsed("lib", "xrootd", TRUE, <<"5", ".", "7", "-", "a">>),
      Parsed("tool", "zlib", TRUE, <<"5", ".", "7", "-", "a">>),
      Parsed("tool", "xrootd", FALSE, <<>>),
      Parsed("tool", "xrootd", TRUE, <<>>) }
    \cup { Parsed("tool", "xrootd", TRUE, v) : v \in XmlVersions }

\* increasing index sequences into AllPairs: the pairs that exist, in scan order
Increasing(f) == \A i, j \in DOMAIN f : i < j => f[i] < f[j]

Trees ==
    { [i \in DOMAIN sel |-> [arch |-> AllPairs[sel[i]].arch, rel |-> AllPairs[sel[i]].rel,
                             xml |-> xs[i]]] :
        <<sel, xs>> \in UNION { {f \in [1..k -> DOMAIN AllPairs] : Increasing(f)}
                                  \X [1..k -> XmlFiles] : k \in 0..MaxPairs } }

-----------------------------------------------------------------------------
(* State machines                                                          *)

NoKey == [num |-> <<>>, pre |-> [name |-> <<>>, num |-> 0]]

NoFile == [kind |-> "missing", top |-> [mapping |-> FALSE, items |-> <<>>]]

NoData == [mapping |-> FALSE, items |-> <<>>]

\* ---- get_sort_key
InitKey ==
    /\ pc = "key_call"
    /\ release_name \in SortKeyNames
    /\ sort_key = NoKey
    /\ version_str = <<>> /\ target_str = <<>> /\ is_greater = None
    /\ json_file = NoFile /\ json_data = NoData /\ analysis = NoAnalysis
    /\ tree = <<>> /\ idx = 0 /\ release_data = <<>>

GetSortKey ==
    /\ pc = "key_call"
    /\ sort_key' = get_sort_key(release_name)
    /\ pc' = "key_done"
    /\ UNCHANGED <<release_name, version_str, target_str, is_greater, json_file,
                   json_data, analysis, tree, idx, release_data>>

NextKey == GetSortKey

SpecKey == InitKey /\ [][NextKey]_vars

\* ---- is_version_greater
InitCmp ==
    /\ pc = "cmp_call"
    /\ version_str \in DottedVersions(VersionComponents)
    /\ target_str \in DottedVersions(TargetComponents)
    /\ is_greater = None
    /\ release_name = <<>> /\ sort_key = NoKey
    /\ json_file = NoFile /\ json_data = NoData /\ analysis = NoAnalysis
    /\ tree = <<>> /\ idx = 0 /\ release_data = <<>>

IsVersionGreater ==
    /\ pc = "cmp_call"
    /\ is_greater' = is_version_greater(version_str, target_str)
    /\ pc' = "cmp_done"
    /\ UNCHANGED <<release_name, sort_key, version_str, target_str, json_file,
                   json_data, analysis, tree, idx, release_data>>

NextCmp == IsVersionGreater

SpecCmp == InitCmp /\ [][NextCmp]_vars

\* ---- analyze_releases
InitAnalyze(files) ==
    /\ pc = "open"
    /\ json_file \in files
    /\ json_data = NoData
    /\ analysis = NoAnalysis
    /\ release_name = <<>> /\ sort_key = NoKey
    /\ version_str = <<>> /\ target_str = <<>> /\ is_greater = None
    /\ tree = <<>> /\ idx = 0 /\ release_data = <<>>

\* lines 71-79: open and json.load, with the two handled exceptions
LoadJson ==
    /\ pc = "open"
    /\ IF json_file.kind \in {"missing", "garbage"}
       THEN /\ analysis' = EmptyResult
            /\ pc' = "returned"
            /\ UNCHANGED json_data
       ELSE /\ json_data' = json_file.top
            /\ pc' = "loaded"
            /\ UNCHANGED analysis
    /\ UNCHANGED <<release_name, sort_key, version_str, target_str, is_greater,
                   json_file, tree, idx, release_data>>

\* lines 81-157: flatten, sort, group, report; an exception nothing catches
\* leaves the function
AnalyzeReleases ==
    /\ pc = "loaded"
    /\ analysis' = Analyze(json_data)
    /\ pc' = IF analysis'.outcome = "returned" THEN "returned" ELSE "raised"
    /\ UNCHANGED <<release_name, sort_key, version_str, target_str, is_greater,
                   json_file, json_data, tree, idx, release_data>>

NextAnalyze == LoadJson \/ AnalyzeReleases

Init == InitAnalyze({JsonObject(d) : d \in Datasets(ReleaseNames, WellFormedEntries, MaxReleases)})

Spec == Init /\ [][NextAnalyze]_vars

InitMalformed ==
    InitAnalyze({NoFile, [kind |-> "garbage", top |-> NoData], JsonNonObject}
                \cup {JsonObject(d) :
                        d \in Datasets(MalformedNames, MalformedEntries, MaxMalformedReleases)})

SpecMalformed == InitMalformed /\ [][NextAnalyze]_vars

\* ---- find_xrootd_versions
InitScan ==
    /\ pc = "scan"
    /\ tree \in Trees
    /\ idx = 0
    /\ release_data = <<>>
    /\ release_name = <<>> /\ sort_key = NoKey
    /\ version_str = <<>> /\ target_str = <<>> /\ is_greater = None
    /\ json_file = NoFile /\ json_data = NoData /\ analysis = NoAnalysis

\* one iteration of the loops of lines 101-167
ScanPair ==
    /\ pc = "scan"
    /\ idx < Len(tree)
    /\ release_data' = ScanOne(release_data, tree[idx + 1])
    /\ idx' = idx + 1
    /\ UNCHANGED <<pc, release_name, sort_key, version_str, target_str, is_greater,
                   json_file, json_data, analysis, tree>>

\* line 169: return release_data
ScanReturn ==
    /\ pc = "scan"
    /\ idx = Len(tree)
    /\ pc' = "scan_done"
    /\ UNCHANGED <<release_name, sort_key, version_str, target_str, is_greater,
                   json_file, json_data, analysis, tree, idx, release_data>>

NextScan == ScanPair \/ ScanReturn

SpecScan == InitScan /\ [][NextScan]_vars

-----------------------------------------------------------------------------
(* Properties of analyze_releases                                          *)

SeriesOf(m) == analysis.series[m]

\* every (release, ready) pair of every series
Grouped == UNION {Range(SeriesOf(m)) : m \in DOMAIN analysis.series}

IsReadyFromText(text) ==
    text \in {"Token ready starting from",
              "Token ready starting from (all releases in series are ready)"}

\* the earliest position from which every release of the series is ready
StablePoint(s) ==
    CHOOSE i \in DOMAIN s :
        /\ \A j \in i..Len(s) : s[j].ready
        /\ \A k \in 1..(i - 1) : \E j \in k..Len(s) : ~s[j].ready

\* C1: every series is a non-empty sequence in ascending SortKey order and gets
\* exactly one report: when its last release is ready, "Token ready starting
\* from V" with V the earliest release from which all are ready; when no release
\* is ready, "No releases are token ready."; otherwise the "No stable" string.
\* A release is named exactly when the last release is ready.
C1_InflectionReport ==
    pc = "returned" =>
        /\ DOMAIN analysis.results = DOMAIN analysis.series
        /\ \A m \in DOMAIN analysis.series :
            LET s == SeriesOf(m)
                r == analysis.results[m]
            IN /\ Len(s) > 0
               /\ \A i, j \in DOMAIN s :
                     i < j => ~KeyLess(get_sort_key(s[j].name), get_sort_key(s[i].name))
               /\ (r.release # NoRelease) <=> s[Len(s)].ready
               /\ IF s[Len(s)].ready
                  THEN IsReadyFromText(r.text) /\ r.release = s[StablePoint(s)].name
                  ELSE IF \A i \in DOMAIN s : ~s[i].ready
                  THEN r.text = "No releases are token ready."
                  ELSE r.text = "No stable 'Token ready' status (series ends with a non-ready release)."

\* a series ready, not ready, ready: the report names its third release
C1_Witness ==
    /\ pc = "returned"
    /\ \E m \in DOMAIN analysis.series :
          /\ Len(SeriesOf(m)) = 3
          /\ SeriesOf(m)[1].ready /\ ~SeriesOf(m)[2].ready /\ SeriesOf(m)[3].ready
          /\ analysis.results[m].text = "Token ready starting from"
          /\ analysis.results[m].release = SeriesOf(m)[3].name

\* C2: a release is treated as ready exactly when every architecture entry
\* under it has isTokenReady true (a not-ready or missing flag makes it not
\* ready); it is grouped exactly when it has an architecture entry, and a
\* release with none is in no series and not in the unsupported list.
C2_ReleaseReadiness ==
    pc = "returned" =>
        \A i \in DOMAIN json_data.items :
            LET name == json_data.items[i].name
                values == json_data.items[i].value.values
                all_true == \A k \in DOMAIN values : values[k] = "ready"
            IN IF Len(values) = 0
               THEN /\ \A e \in Grouped : e.name # name
                    /\ name \notin Range(analysis.unsupported)
               ELSE /\ [name |-> name, ready |-> all_true] \in Grouped
                    /\ [name |-> name, ready |-> ~all_true] \notin Grouped

\* a release with a missing flag grouped as not ready, beside a release with
\* no architecture that is grouped nowhere
C2_Witness ==
    /\ pc = "returned"
    /\ \E i, j \in DOMAIN json_data.items :
          /\ json_data.items[i].value.values = <<"ready", "noflag">>
          /\ [name |-> json_data.items[i].name, ready |-> FALSE] \in Grouped
          /\ json_data.items[j].value.values = <<>>
    /\ Cardinality(Grouped) = Len(json_data.items) - 1

MajorOf(name) == get_sort_key(name).num[1]

\* the retained, not-ready releases of the dataset with major version 10..13
ExpectedUnsupported ==
    { json_data.items[i].name : i \in
        { k \in DOMAIN json_data.items :
            /\ Len(json_data.items[k].value.values) > 0
            /\ \E a \in DOMAIN json_data.items[k].value.values :
                  json_data.items[k].value.values[a] # "ready"
            /\ MajorOf(json_data.items[k].name) \in 10..13 } }

\* C3: the unsupported list holds exactly the retained not-ready releases with
\* major version 10 to 13, each once, in ascending SortKey order.
C3_UnsupportedList ==
    pc = "returned" =>
        LET u == analysis.unsupported
        IN /\ Range(u) = ExpectedUnsupported
           /\ Injective(u)
           /\ \A i, j \in DOMAIN u :
                 i < j => ~KeyLess(get_sort_key(u[j]), get_sort_key(u[i]))

\* not-ready releases of major 9, 10, 13 or 14: only those of 10 and 13 listed
C3_Witness ==
    /\ pc = "returned"
    /\ \A i \in DOMAIN json_data.items :
          json_data.items[i].value.values = <<"ready", "notready">>
    /\ {MajorOf(json_data.items[i].name) : i \in DOMAIN json_data.items} \in
          {{9, 10, 13}, {10, 13, 14}}
    /\ Len(analysis.unsupported) = 2
    /\ analysis.unsupported[1] = CMSSW_10_6_0

\* the items of a dataset taken in the order f
Reordered(top, f) == [mapping |-> top.mapping, items |-> [i \in DOMAIN f |-> top.items[f[i]]]]

Orders(n) == {f \in [1..n -> 1..n] : Injective(f)}

\* C6: the report mapping and the unsupported list are the same for every
\* iteration order of the same dataset, also when release names share a SortKey.
C6_OrderIrrelevant ==
    pc = "returned" =>
        \A f \in Orders(Len(json_data.items)) :
            LET other == Analyze(Reordered(json_data, f))
            IN /\ other.results = analysis.results
               /\ other.unsupported = analysis.unsupported

Malformed(file) ==
    \/ file.kind \in {"missing", "garbage"}
    \/ ~file.top.mapping
    \/ \E i \in DOMAIN file.top.items :
          \/ ~file.top.items[i].value.mapping
          \/ "scalar" \in Range(file.top.items[i].value.values)

\* C7: analyze_releases never ends with an unhandled exception; on a missing
\* or malformed dataset it returns the empty report and the empty list.
C7_NeverAborts ==
    /\ pc # "raised"
    /\ (pc = "returned" /\ Malformed(json_file)) =>
          analysis.results = <<>> /\ analysis.unsupported = <<>>

-----------------------------------------------------------------------------
(* Properties of is_version_greater                                        *)

PureNumeric(v) == \A i \in DOMAIN Split(v, ".") : IsDigit(Split(v, ".")[i])

\* component i of v, 0 beyond its last component
Component(v, i) == IF i <= Len(Split(v, ".")) THEN IntOf(Split(v, ".")[i]) ELSE 0

PaddedGreater(a, b) ==
    \E i \in 1..Max(Len(Split(a, ".")), Len(Split(b, "."))) :
        /\ Component(a, i) > Component(b, i)
        /\ \A j \in 1..(i - 1) : Component(a, j) = Component(b, j)

\* C4: on pure-numeric dotted strings is_version_greater(A, B) is True exactly
\* when A's zero-padded component tuple is lexicographically greater than B's,
\* and False otherwise (so never on A = A or on trailing zeros only).
C4_StrictlyGreater ==
    (pc = "cmp_done" /\ PureNumeric(version_str) /\ PureNumeric(target_str)) =>
        is_greater = IF PaddedGreater(version_str, target_str) THEN True ELSE False

\* "A.0" against "A": different lengths, equal once padded, not greater
C4_Witness ==
    /\ pc = "cmp_done"
    /\ PureNumeric(version_str) /\ PureNumeric(target_str)
    /\ version_str = target_str \o <<".", "0">>
    /\ is_greater = False

-----------------------------------------------------------------------------
(* Properties of get_sort_key                                              *)

PartsOf(name) == Tail(Split(name, "_"))

\* number of leading purely-numeric segments after the prefix
LeadingNumeric(name) ==
    LET parts == PartsOf(name)
    IN Cardinality({k \in DOMAIN parts : \A i \in 1..k : IsDigit(parts[i])})

Bare(name) == LeadingNumeric(name) = Len(PartsOf(name))

\* the first non-numeric segment of the name starts with a letter
HasAlphaTag(name) ==
    /\ ~Bare(name)
    /\ LET part == PartsOf(name)[LeadingNumeric(name) + 1]
       IN Len(part) > 0 /\ IsAlphaChar(part[1])

\* C5: a release with an alphabetic tag sorts strictly before every bare
\* release with the same numeric parts.
C5_BareSortsLast ==
    (pc = "key_done" /\ HasAlphaTag(release_name)) =>
        \A b \in SortKeyNames :
            (Bare(b) /\ get_sort_key(b).num = sort_key.num) =>
                KeyLess(sort_key, get_sort_key(b))

-----------------------------------------------------------------------------
(* Properties of find_xrootd_versions                                      *)

GoodXml(xml) ==
    /\ xml.state = "parsed"
    /\ xml.tag = "tool" /\ xml.name = "xrootd"
    /\ xml.has_version /\ xml.version # <<>>

HasRecord(pair) ==
    pair.rel \in DOMAIN release_data /\ pair.arch \in DOMAIN release_data[pair.rel]

RecordOf(pair) == release_data[pair.rel][pair.arch]

\* C8: a scanned pair has a record exactly when its xrootd.xml exists, parses,
\* is <tool name="xrootd"> and has a non-empty version; every other pair is
\* absent, the scan goes on to the last pair, and no release key with zero
\* architectures is produced.
C8_RecordIffGoodXml ==
    /\ \A i \in DOMAIN tree : HasRecord(tree[i]) <=> (i <= idx /\ GoodXml(tree[i].xml))
    /\ \A rel \in DOMAIN release_data :
          /\ DOMAIN release_data[rel] # {}
          /\ \A arch \in DOMAIN release_data[rel] :
                \E i \in DOMAIN tree : tree[i].rel = rel /\ tree[i].arch = arch
    /\ pc = "scan_done" => idx = Len(tree)

\* an unparseable file, then an unexpected node, then a good file that is recorded
C8_Witness ==
    /\ pc = "scan_done"
    /\ Len(tree) = 3
    /\ tree[1].xml.state = "unparseable"
    /\ tree[2].xml.state = "parsed" /\ tree[2].xml.tag # "tool"
    /\ GoodXml(tree[3].xml)
    /\ tree[3].rel = tree[1].rel
    /\ DOMAIN release_data = {tree[3].rel}

\* v is the part of full before its first hyphen
IsBeforeFirstDash(v, full) ==
    /\ Len(v) <= Len(full)
    /\ \A i \in DOMAIN v : v[i] = full[i] /\ v[i] # "-"
    /\ Len(v) < Len(full) => full[Len(v) + 1] = "-"

\* some dot-separated component of v has no digit
UnparseableVersion(v) ==
    \E i \in DOMAIN Split(v, ".") :
        \A k \in DOMAIN Split(v, ".")[i] : ~IsDigitChar(Split(v, ".")[i][k])

\* C9: every record holds the version attribute up to its first hyphen, and
\* isTokenReady is true exactly when is_version_greater(that, threshold) is
\* True; a version that cannot be parsed is recorded with isTokenReady false
\* and the scan goes on.
C9_RecordContent ==
    /\ \A i \in 1..idx :
          GoodXml(tree[i].xml) =>
              /\ HasRecord(tree[i])
              /\ IsBeforeFirstDash(RecordOf(tree[i]).xrootd_version, tree[i].xml.version)
              /\ RecordOf(tree[i]).isTokenReady =
                    (is_version_greater(RecordOf(tree[i]).xrootd_version,
                                        token_ready_version) = True)
              /\ UnparseableVersion(RecordOf(tree[i]).xrootd_version) =>
                    RecordOf(tree[i]).isTokenReady = FALSE
    /\ pc = "scan_done" => idx = Len(tree)

\* a version starting with a hyphen and one with an empty component are both
\* recorded as not ready, and a later pair is still recorded as ready
C9_Witness ==
    /\ pc = "scan_done"
    /\ Len(tree) = 3
    /\ tree[1].xml.version = <<"-", "a">> /\ GoodXml(tree[1].xml)
    /\ RecordOf(tree[1]) = [xrootd_version |-> <<>>, isTokenReady |-> FALSE]
    /\ tree[2].xml.version = <<"5", ".", ".", "1">> /\ GoodXml(tree[2].xml)
    /\ RecordOf(tree[2]).isTokenReady = FALSE
    /\ GoodXml(tree[3].xml)
    /\ RecordOf(tree[3]) = [xrootd_version |-> <<"1", "0", ".", "0">>, isTokenReady |-> TRUE]

=============================================================================
